---- MODULE Spec2Model ----
(***************************************************************************)
(* A fixed-record binary file store (pack_record / unpack_record and the   *)
(* file operations built on them) and two prisoner's-dilemma strategies.   *)
(*                                                                         *)
(* A file is a sequence of bytes (0..255).  Text is a sequence of Unicode  *)
(* code points.  A Python float is the rational <<num, den>> in lowest     *)
(* terms it stands for.  struct's native byte order is taken to be         *)
(* little-endian (the x86-64 / aarch64 build).                             *)
(***************************************************************************)
EXTENDS Integers, Sequences, FiniteSets, TLC

(***************************************************************************)
(* Bounds of the model.                                                    *)
(***************************************************************************)
\* The most records the modelled file may hold (guards InsertAt).
MaxRecs == 4

\* The most records a store the searches are run on holds.
MaxStoreRecs == 3

\* The most rounds a strategy program plays.
MaxRounds == 4

(***************************************************************************)
(* Record layout: FORMAT = "20s i f 15s".                                  *)
(***************************************************************************)
NAME_WIDTH == 20
INT_WIDTH == 4
FLOAT_WIDTH == 4
CATEGORY_WIDTH == 15

\* struct's native alignment: the next offset that is a multiple of a.
Align(off, a) == ((off + a - 1) \div a) * a

COUNT_OFFSET == Align(NAME_WIDTH, INT_WIDTH)
PRICE_OFFSET == Align(COUNT_OFFSET + INT_WIDTH, FLOAT_WIDTH)
CATEGORY_OFFSET == PRICE_OFFSET + FLOAT_WIDTH

\* struct.calcsize(FORMAT)
RECORD_SIZE == CATEGORY_OFFSET + CATEGORY_WIDTH

Min(a, b) == IF a < b THEN a ELSE b
Max(a, b) == IF a < b THEN b ELSE a

RECURSIVE Pow2(_)
Pow2(k) == IF k = 0 THEN 1 ELSE 2 * Pow2(k - 1)

\* binary32: the significand of a normal number lies in [2^23, 2^24).
F32_MIN_SIG == Pow2(23)
F32_END_SIG == Pow2(24)

\* bytes[:w]
Truncate(b, w) == SubSeq(b, 1, Min(Len(b), w))

\* bytes.ljust(w, b"\x00")
Ljust(b, w) == IF Len(b) >= w THEN b ELSE b \o [k \in 1..(w - Len(b)) |-> 0]

(***************************************************************************)
(* str.encode("utf-8") for code points of the Basic Multilingual Plane.    *)
(***************************************************************************)
Utf8Char(cp) ==
    IF cp < 128 THEN <<cp>>
    ELSE IF cp < 2048 THEN <<192 + (cp \div 64), 128 + (cp % 64)>>
    ELSE <<224 + (cp \div 4096), 128 + ((cp \div 64) % 64), 128 + (cp % 64)>>

RECURSIVE Utf8Encode(_)
Utf8Encode(s) ==
    IF s = <<>> THEN <<>> ELSE Utf8Char(Head(s)) \o Utf8Encode(Tail(s))

(***************************************************************************)
(* bytes.decode("utf-8", errors="ignore"): a byte that starts no complete  *)
(* well-formed sequence is dropped.                                        *)
(***************************************************************************)
IsCont(b) == b >= 128 /\ b < 192

\* The decoding of b from its k-th byte on.
RECURSIVE Utf8DecodeFrom(_, _)
Utf8DecodeFrom(b, k) ==
    IF k > Len(b) THEN <<>>
    ELSE IF b[k] < 128
        THEN <<b[k]>> \o Utf8DecodeFrom(b, k + 1)
    ELSE IF b[k] >= 194 /\ b[k] < 224 /\ Len(b) >= k + 1 /\ IsCont(b[k + 1])
        THEN <<(b[k] - 192) * 64 + (b[k + 1] - 128)>> \o Utf8DecodeFrom(b, k + 2)
    ELSE IF /\ b[k] >= 224 /\ b[k] < 240 /\ Len(b) >= k + 2
            /\ IsCont(b[k + 1]) /\ IsCont(b[k + 2])
            /\ (b[k] = 224 => b[k + 1] >= 160)
            /\ (b[k] = 237 => b[k + 1] < 160)
        THEN <<(b[k] - 224) * 4096 + (b[k + 1] - 128) * 64 + (b[k + 2] - 128)>>
             \o Utf8DecodeFrom(b, k + 3)
    ELSE Utf8DecodeFrom(b, k + 1)

Utf8DecodeIgnore(b) == Utf8DecodeFrom(b, 1)

\* The length of s without its trailing U+0000 characters.
RECURSIVE StrippedLen(_, _)
StrippedLen(s, k) == IF k > 0 /\ s[k] = 0 THEN StrippedLen(s, k - 1) ELSE k

\* str.rstrip("\x00")
RStripNul(s) == SubSeq(s, 1, StrippedLen(s, Len(s)))

(***************************************************************************)
(* struct "i": a signed 32-bit integer, two's complement, little-endian.   *)
(***************************************************************************)
PackInt(c) ==
    <<c % 256, (c \div 256) % 256, (c \div 65536) % 256, (c \div 16777216) % 256>>

UnpackInt(b) ==
    b[1] + 256 * b[2] + 65536 * b[3]
    + 16777216 * (IF b[4] >= 128 THEN b[4] - 256 ELSE b[4])

(***************************************************************************)
(* struct "f": IEEE-754 binary32, round to nearest even, little-endian.    *)
(* Normal numbers and zero; a price is a rational <<num, den>>, den > 0.   *)
(***************************************************************************)
\* Scale num/den into [2^23, 2^24): the result is <<num, den, e>> with
\* value = (num / den) * 2^e.
RECURSIVE F32Scale(_, _, _)
F32Scale(n, d, e) ==
    IF n \div d < F32_MIN_SIG THEN F32Scale(2 * n, d, e - 1)
    ELSE IF n \div d >= F32_END_SIG THEN F32Scale(n, 2 * d, e + 1)
    ELSE <<n, d, e>>

\* n / d rounded to the nearest integer, ties to even.
RoundHalfEven(n, d) ==
    LET q == n \div d
        r == n % d
    IN  IF 2 * r > d THEN q + 1
        ELSE IF 2 * r = d THEN q + (q % 2)
        ELSE q

\* <<sign, biased exponent, 23-bit fraction>> of the binary32 nearest to q.
F32Fields(q) ==
    IF q[1] = 0 THEN <<0, 0, 0>>
    ELSE LET sign == IF q[1] < 0 THEN 1 ELSE 0
             mag == IF q[1] < 0 THEN 0 - q[1] ELSE q[1]
             s == F32Scale(mag, q[2], 0)
             m0 == RoundHalfEven(s[1], s[2])
             m == IF m0 = F32_END_SIG THEN F32_MIN_SIG ELSE m0
             e == IF m0 = F32_END_SIG THEN s[3] + 1 ELSE s[3]
         IN  <<sign, e + 150, m - F32_MIN_SIG>>

PackFloat(q) ==
    LET f == F32Fields(q)
    IN  << f[3] % 256,
           (f[3] \div 256) % 256,
           ((f[3] \div 65536) % 128) + 128 * (f[2] % 2),
           (f[2] \div 2) + 128 * f[1] >>

\* m * 2^e as a rational in lowest terms.
RECURSIVE Dyadic(_, _)
Dyadic(m, e) ==
    IF e < 0 /\ m % 2 = 0 THEN Dyadic(m \div 2, e + 1)
    ELSE IF e < 0 THEN <<m, Pow2(0 - e)>>
    ELSE <<m * Pow2(e), 1>>

UnpackFloat(b) ==
    LET sign == b[4] \div 128
        bexp == 2 * (b[4] % 128) + (b[3] \div 128)
        frac == 65536 * (b[3] % 128) + 256 * b[2] + b[1]
        v == Dyadic(frac + F32_MIN_SIG, bexp - 150)
    IN  IF bexp = 0 /\ frac = 0 THEN <<0, 1>>
        ELSE IF sign = 1 THEN <<0 - v[1], v[2]>> ELSE v

(***************************************************************************)
(* pack_record / unpack_record.                                            *)
(***************************************************************************)
\* struct.pack's pad bytes between fields (none for this FORMAT).
Pad(from, to) == [k \in 1..(to - from) |-> 0]

pack_record(name, count, price, category) ==
    Ljust(Truncate(Utf8Encode(name), NAME_WIDTH), NAME_WIDTH)
    \o Pad(NAME_WIDTH, COUNT_OFFSET)
    \o PackInt(count)
    \o Pad(COUNT_OFFSET + INT_WIDTH, PRICE_OFFSET)
    \o PackFloat(price)
    \o Ljust(Truncate(Utf8Encode(category), CATEGORY_WIDTH), CATEGORY_WIDTH)

\* Mutant: the padding left on the decoded text.
unpack_record_NoStrip(data) ==
    [ name |-> Utf8DecodeIgnore(SubSeq(data, 1, NAME_WIDTH)),
      count |-> UnpackInt(SubSeq(data, COUNT_OFFSET + 1, COUNT_OFFSET + INT_WIDTH)),
      price |-> UnpackFloat(SubSeq(data, PRICE_OFFSET + 1, PRICE_OFFSET + FLOAT_WIDTH)),
      category |-> Utf8DecodeIgnore(
                      SubSeq(data, CATEGORY_OFFSET + 1, CATEGORY_OFFSET + CATEGORY_WIDTH)) ]

unpack_record(data) ==
    [ name |-> RStripNul(Utf8DecodeIgnore(SubSeq(data, 1, NAME_WIDTH))),
      count |-> UnpackInt(SubSeq(data, COUNT_OFFSET + 1, COUNT_OFFSET + INT_WIDTH)),
      price |-> UnpackFloat(SubSeq(data, PRICE_OFFSET + 1, PRICE_OFFSET + FLOAT_WIDTH)),
      category |-> RStripNul(Utf8DecodeIgnore(
                      SubSeq(data, CATEGORY_OFFSET + 1, CATEGORY_OFFSET + CATEGORY_WIDTH))) ]

\* pack_record(*rec) for a record value.
Encode(r) == pack_record(r.name, r.count, r.price, r.category)

Rec(name, count, price, category) ==
    [name |-> name, count |-> count, price |-> price, category |-> category]

\* Python's None, where a record is expected.
None == [none |-> TRUE]

(***************************************************************************)
(* generate_record: the records Initialize writes.                         *)
(***************************************************************************)
generate_record(index) ==
    IF index = 0 THEN
        Rec(<<1103, 1073, 1083, 1086, 1082, 1086>>, 10, <<7, 2>>,
            <<1092, 1088, 1091, 1082, 1090>>)
    ELSE IF index = 1 THEN
        Rec(<<1082, 1085, 1080, 1075, 1072>>, 2, <<799, 1>>,
            <<1090, 1086, 1074, 1072, 1088>>)
    ELSE IF index = 2 THEN
        Rec(<<1085, 1086, 1091, 1090, 1073, 1091, 1082>>, 1, <<8999999, 100>>,
            <<1090, 1077, 1093, 1085, 1080, 1082, 1072>>)
    ELSE None

(***************************************************************************)
(* int(str) and float(str) on text: surrounding whitespace is stripped, a  *)
(* sign may lead, digits may be grouped by single underscores.  The result *)
(* is [ok |-> FALSE] for ValueError.  A float is a rational <<num, den>>;  *)
(* <<1, 0>>, <<-1, 0>> and <<0, 0>> stand for inf, -inf and nan.           *)
(***************************************************************************)
IsSpace(c) == c \in {9, 10, 11, 12, 13, 28, 29, 30, 31, 32}
IsDigit(c) == c >= 48 /\ c <= 57

RECURSIVE LStrip(_)
LStrip(s) == IF s # <<>> /\ IsSpace(s[1]) THEN LStrip(Tail(s)) ELSE s

RECURSIVE RStrip(_)
RStrip(s) ==
    IF s # <<>> /\ IsSpace(s[Len(s)]) THEN RStrip(SubSeq(s, 1, Len(s) - 1)) ELSE s

\* str.strip()
Strip(s) == RStrip(LStrip(s))

\* The index of the first element of s in set cs, or 0.
RECURSIVE IndexOf(_, _, _)
IndexOf(s, cs, from) ==
    IF from > Len(s) THEN 0
    ELSE IF s[from] \in cs THEN from
    ELSE IndexOf(s, cs, from + 1)

\* Digits, grouped by single underscores: "12", "1_000".
DigitGroup(s) ==
    /\ s # <<>>
    /\ IsDigit(s[1])
    /\ IsDigit(s[Len(s)])
    /\ \A k \in 1..Len(s) : IsDigit(s[k]) \/ s[k] = 95
    /\ \A k \in 1..(Len(s) - 1) : ~(s[k] = 95 /\ s[k + 1] = 95)

RECURSIVE DigitsValue(_, _)
DigitsValue(s, acc) ==
    IF s = <<>> THEN acc
    ELSE IF s[1] = 95 THEN DigitsValue(Tail(s), acc)
    ELSE DigitsValue(Tail(s), 10 * acc + (s[1] - 48))

RECURSIVE CountDigits(_)
CountDigits(s) ==
    IF s = <<>> THEN 0
    ELSE (IF IsDigit(s[1]) THEN 1 ELSE 0) + CountDigits(Tail(s))

HasSign(s) == s # <<>> /\ s[1] \in {43, 45}
Unsigned(s) == IF HasSign(s) THEN Tail(s) ELSE s
SignOf(s) == IF s # <<>> /\ s[1] = 45 THEN 0 - 1 ELSE 1

\* int(text)
ParseInt(text) ==
    LET s == Strip(text)
        body == Unsigned(s)
    IN  IF DigitGroup(body)
        THEN [ok |-> TRUE, val |-> SignOf(s) * DigitsValue(body, 0)]
        ELSE [ok |-> FALSE, val |-> 0]

RECURSIVE Gcd(_, _)
Gcd(a, b) == IF b = 0 THEN a ELSE Gcd(b, a % b)

Abs(a) == IF a < 0 THEN 0 - a ELSE a

\* num / den in lowest terms, den > 0.
Rational(num, den) ==
    LET g == Gcd(Abs(num), den) IN <<num \div g, den \div g>>

RECURSIVE Pow10(_)
Pow10(k) == IF k = 0 THEN 1 ELSE 10 * Pow10(k - 1)

\* Lower case of an ASCII letter.
Lower(c) == IF c >= 65 /\ c <= 90 THEN c + 32 ELSE c

\* float(text)
ParseFloat(text) ==
    LET s == Strip(text)
        body == Unsigned(s)
        low == [k \in 1..Len(body) |-> Lower(body[k])]
        epos == IndexOf(low, {101}, 1)
        mant == IF epos = 0 THEN body ELSE SubSeq(body, 1, epos - 1)
        expo == IF epos = 0 THEN <<>> ELSE SubSeq(body, epos + 1, Len(body))
        dot == IndexOf(mant, {46}, 1)
        ip == IF dot = 0 THEN mant ELSE SubSeq(mant, 1, dot - 1)
        fp == IF dot = 0 THEN <<>> ELSE SubSeq(mant, dot + 1, Len(mant))
        wellformed ==
            /\ ip = <<>> \/ DigitGroup(ip)
            /\ fp = <<>> \/ DigitGroup(fp)
            /\ ip # <<>> \/ fp # <<>>
            /\ epos = 0 \/ DigitGroup(Unsigned(expo))
        e10 == IF epos = 0 THEN 0
               ELSE SignOf(expo) * DigitsValue(Unsigned(expo), 0)
        scale == e10 - CountDigits(fp)
        digits == DigitsValue(ip \o fp, 0)
    IN  IF low \in {<<105, 110, 102>>, <<105, 110, 102, 105, 110, 105, 116, 121>>}
        THEN [ok |-> TRUE, val |-> <<SignOf(s), 0>>]
        ELSE IF low = <<110, 97, 110>>
        THEN [ok |-> TRUE, val |-> <<0, 0>>]
        ELSE IF ~wellformed
        THEN [ok |-> FALSE, val |-> <<0, 1>>]
        ELSE [ok |-> TRUE,
              val |-> IF scale >= 0
                      THEN <<SignOf(s) * digits * Pow10(scale), 1>>
                      ELSE Rational(SignOf(s) * digits, Pow10(0 - scale))]

\* Python's ==, < and > on two floats.
FloatEq(a, b) == a[2] # 0 /\ b[2] # 0 /\ a = b
FloatLess(a, b) == a[1] * b[2] < b[1] * a[2]

(***************************************************************************)
(* Inputs of the model.                                                    *)
(***************************************************************************)
\* A record that fits the layout and survives the codec unchanged; it shares
\* its category with generate_record(0).
RecFit == Rec(<<112, 101, 97, 114>>, 5, <<5, 4>>, <<1092, 1088, 1091, 1082, 1090>>)

\* A record the codec stores lossily: a 21-byte name cut inside a character,
\* a 17-byte category, a negative count, a price that is no binary32.
RecLong ==
    Rec(<<97>> \o [k \in 1..10 |-> 1103], -1, <<16777217, 1>>,
        <<120, 1090, 1077, 1093, 1085, 1080, 1082, 1072, 1090>>)

InsertRecs == {RecFit, RecLong}

\* Position arguments: below 1, inside and beyond every valid window.
Positions == 0..(MaxRecs + 1)

\* The dangling-tail lengths an external truncation leaves.
TailLens == {1, RECORD_SIZE - 1}

\* The records init_db_binary writes.
Generated == {generate_record(k) : k \in 0..2}

\* The stores the operations leave behind: Initialize's records, in their
\* order, less the deleted ones, with inserted records anywhere between.
Stores ==
    { s \in UNION {[1..len -> Generated \cup InsertRecs] : len \in 0..MaxStoreRecs} :
        \A a, b \in DOMAIN s :
            (a < b /\ s[a] \in Generated /\ s[b] \in Generated)
            => \E j, k \in 0..2 : /\ j < k
                                  /\ s[a] = generate_record(j)
                                  /\ s[b] = generate_record(k) }

\* The file of a store: its records' encodings back to back.
RECURSIVE FileOf(_)
FileOf(s) == IF s = <<>> THEN <<>> ELSE Encode(Head(s)) \o FileOf(Tail(s))

\* Queries of one_field_search: (field_num, value) as typed.
\*   ('1', 'pear')
\*   ('2', '2')
\*   ('2', 'two')
\*   ('3', '3.5')
\*   ('4', 'техника')
\*   ('5', '2')
\*   ('x', '2')
\*   ('3', '3,5')
OneFieldQueries ==
    {
        [f1 |-> <<49>>, v1 |-> <<112, 101, 97, 114>>, f2 |-> <<>>, v2 |-> <<>>],
        [f1 |-> <<50>>, v1 |-> <<50>>, f2 |-> <<>>, v2 |-> <<>>],
        [f1 |-> <<50>>, v1 |-> <<116, 119, 111>>, f2 |-> <<>>, v2 |-> <<>>],
        [f1 |-> <<51>>, v1 |-> <<51, 46, 53>>, f2 |-> <<>>, v2 |-> <<>>],
        [f1 |-> <<52>>, v1 |-> <<1090, 1077, 1093, 1085, 1080, 1082, 1072>>, f2 |-> <<>>, v2 |-> <<>>],
        [f1 |-> <<53>>, v1 |-> <<50>>, f2 |-> <<>>, v2 |-> <<>>],
        [f1 |-> <<120>>, v1 |-> <<50>>, f2 |-> <<>>, v2 |-> <<>>],
        [f1 |-> <<51>>, v1 |-> <<51, 44, 53>>, f2 |-> <<>>, v2 |-> <<>>]
    }

\* Queries of two_fields_search: (field1_num, value1, field2_num, value2).
\*   ('1', 'pear', '2', '5')
\*   ('2', '1', '4', 'техника')
\*   ('2', '2', '2', '2')
\*   ('7', 'a', '7', 'b')
\*   ('0', 'a', '1', 'pear')
\*   ('x', 'a', '1', 'b')
\*   ('x', 'a', 'x', 'b')
\*   ('4', 'фрукт', '3', '3.5')
TwoFieldQueries ==
    {
        [f1 |-> <<49>>, v1 |-> <<112, 101, 97, 114>>, f2 |-> <<50>>, v2 |-> <<53>>],
        [f1 |-> <<50>>, v1 |-> <<49>>, f2 |-> <<52>>, v2 |-> <<1090, 1077, 1093, 1085, 1080, 1082, 1072>>],
        [f1 |-> <<50>>, v1 |-> <<50>>, f2 |-> <<50>>, v2 |-> <<50>>],
        [f1 |-> <<55>>, v1 |-> <<97>>, f2 |-> <<55>>, v2 |-> <<98>>],
        [f1 |-> <<48>>, v1 |-> <<97>>, f2 |-> <<49>>, v2 |-> <<112, 101, 97, 114>>],
        [f1 |-> <<120>>, v1 |-> <<97>>, f2 |-> <<49>>, v2 |-> <<98>>],
        [f1 |-> <<120>>, v1 |-> <<97>>, f2 |-> <<120>>, v2 |-> <<98>>],
        [f1 |-> <<52>>, v1 |-> <<1092, 1088, 1091, 1082, 1090>>, f2 |-> <<51>>, v2 |-> <<51, 46, 53>>]
    }

\* Conditions of digit_search.
\*   '>5'
\*   '>5.0'
\*   '=2'
\*   '< 800.5'
\*   ''
\*   '!5'
\*   '>'
\*   '>five'
\*   '=1.2.3'
Conditions ==
    {
        [f1 |-> <<>>, v1 |-> <<62, 53>>, f2 |-> <<>>, v2 |-> <<>>],
        [f1 |-> <<>>, v1 |-> <<62, 53, 46, 48>>, f2 |-> <<>>, v2 |-> <<>>],
        [f1 |-> <<>>, v1 |-> <<61, 50>>, f2 |-> <<>>, v2 |-> <<>>],
        [f1 |-> <<>>, v1 |-> <<60, 32, 56, 48, 48, 46, 53>>, f2 |-> <<>>, v2 |-> <<>>],
        [f1 |-> <<>>, v1 |-> <<>>, f2 |-> <<>>, v2 |-> <<>>],
        [f1 |-> <<>>, v1 |-> <<33, 53>>, f2 |-> <<>>, v2 |-> <<>>],
        [f1 |-> <<>>, v1 |-> <<62>>, f2 |-> <<>>, v2 |-> <<>>],
        [f1 |-> <<>>, v1 |-> <<62, 102, 105, 118, 101>>, f2 |-> <<>>, v2 |-> <<>>],
        [f1 |-> <<>>, v1 |-> <<61, 49, 46, 50, 46, 51>>, f2 |-> <<>>, v2 |-> <<>>]
    }

\* Records given to the codec: names of 0, 4, 14, 20 and 21 bytes and one
\* ending in NUL; counts over the 32-bit range; prices that are binary32
\* values (0, 3.5, -0.5) and prices that are not (89999.99, 16777217);
\* categories of 0, 10, 15 and 17 bytes.
CodecNames ==
    { <<>>,
      <<112, 101, 97, 114>>,
      <<1085, 1086, 1091, 1090, 1073, 1091, 1082>>,
      [k \in 1..10 |-> 1103],
      <<97>> \o [k \in 1..10 |-> 1103],
      <<97, 98, 0>> }

CodecCounts == {0, -1, 2147483647, -2147483647}

CodecPrices == {<<0, 1>>, <<7, 2>>, <<-1, 2>>, <<8999999, 100>>, <<16777217, 1>>}

CodecCategories ==
    { <<>>,
      <<1092, 1088, 1091, 1082, 1090>>,
      <<120>> \o [k \in 1..7 |-> 1090],
      <<120, 1090, 1077, 1093, 1085, 1080, 1082, 1072, 1090>> }

CodecRecs ==
    { Rec(nm, c, p, cat) : nm \in CodecNames, c \in CodecCounts,
                           p \in CodecPrices, cat \in CodecCategories }

NoRec == Rec(<<>>, 0, <<0, 1>>, <<>>)
NoQuery == [f1 |-> <<>>, v1 |-> <<>>, f2 |-> <<>>, v2 |-> <<>>]

(***************************************************************************)
(* State.                                                                  *)
(*   exists, file   the database file on disk                              *)
(*   pc             where the running operation stands ("idle": none)      *)
(*   call           the operation last invoked and its arguments           *)
(*   n, i, chunk, new_data   locals of insert_record_at / delete_record    *)
(*   out            the items the operation has printed so far             *)
(*   msgs           the messages it has printed                            *)
(*   pre            the file as it was when the operation was invoked      *)
(* The strategy programs (grudger.py, tit_for_tat.py):                      *)
(*   betrayed            grudger's flag                                    *)
(*   opponent_last_move  tit_for_tat's memory                              *)
(*   lines               the input lines read so far                       *)
(*   moves               the moves printed so far                          *)
(***************************************************************************)
VARIABLES exists, file, pc, call, n, i, chunk, new_data, out, msgs, pre,
          betrayed, opponent_last_move, lines, moves,
          noted   \* history: a completed operation, kept for comparison

vars == <<exists, file, pc, call, n, i, chunk, new_data, out, msgs, pre,
          betrayed, opponent_last_move, lines, moves, noted>>

\* The state of the strategy programs, which the database program never
\* touches.
strategy == <<betrayed, opponent_last_move, lines, moves>>

locals == <<n, i, chunk, new_data>>

(***************************************************************************)
(* Raw file access.                                                        *)
(***************************************************************************)
\* f.seek(off); f.read(size)
ReadAt(f, off, size) == SubSeq(f, off + 1, Min(off + size, Len(f)))

\* f.seek(off); f.write(data)
WriteAt(f, off, data) ==
    [k \in 1..Max(Len(f), off + Len(data)) |->
        IF k > off /\ k <= off + Len(data) THEN data[k - off]
        ELSE IF k <= Len(f) THEN f[k]
        ELSE 0]

\* f.truncate(size)
TruncateTo(f, size) == SubSeq(f, 1, Min(size, Len(f)))

\* The record slot at 1-based position p of a file.
Slot(f, p) == ReadAt(f, (p - 1) * RECORD_SIZE, RECORD_SIZE)

NumRecords(f) == Len(f) \div RECORD_SIZE

WellFormed(f) == Len(f) % RECORD_SIZE = 0

Call(op, pos, rec, query) == [op |-> op, pos |-> pos, rec |-> rec, query |-> query]

RecordItem(idx, data) ==
    [kind |-> "record", idx |-> idx, rec |-> unpack_record(data), len |-> Len(data)]

CorruptItem(idx, data) ==
    [kind |-> "corrupt", idx |-> idx, rec |-> NoRec, len |-> Len(data)]

\* No operation noted.
NoNote == [call |-> Call("none", 0, NoRec, NoQuery), pre |-> <<>>, file |-> <<>>]

Init ==
    /\ exists = FALSE
    /\ file = <<>>
    /\ pc = "idle"
    /\ call = Call("none", 0, NoRec, NoQuery)
    /\ n = 0
    /\ i = 0
    /\ chunk = <<>>
    /\ new_data = <<>>
    /\ out = <<>>
    /\ msgs = <<>>
    /\ pre = <<>>
    /\ betrayed = FALSE
    /\ opponent_last_move = None
    /\ lines = <<>>
    /\ moves = <<>>
    /\ noted = NoNote

\* The searches start on any store: no file yet, or the file of a store as
\* the operations left it, whole or with its last record cut short.
InitQuery ==
    /\ \/ exists = FALSE /\ file = <<>>
       \/ /\ exists = TRUE
          /\ \E s \in Stores :
                 \/ file = FileOf(s)
                 \/ /\ s # <<>>
                    /\ \E m \in TailLens :
                           file = TruncateTo(FileOf(s), Len(s) * RECORD_SIZE - RECORD_SIZE + m)
    /\ pc = "idle"
    /\ call = Call("none", 0, NoRec, NoQuery)
    /\ n = 0
    /\ i = 0
    /\ chunk = <<>>
    /\ new_data = <<>>
    /\ out = <<>>
    /\ msgs = <<>>
    /\ pre = <<>>
    /\ betrayed = FALSE
    /\ opponent_last_move = None
    /\ lines = <<>>
    /\ moves = <<>>
    /\ noted = NoNote

\* An operation that ends in its first step: its messages, its items.
Return(c, m, items) ==
    /\ pc' = "idle"
    /\ call' = c
    /\ pre' = file
    /\ msgs' = m
    /\ out' = items
    /\ n' = 0
    /\ i' = 0
    /\ chunk' = <<>>
    /\ new_data' = <<>>
    /\ UNCHANGED <<strategy, noted>>

(***************************************************************************)
(* init_db_binary: open(filename, "wb") truncates or creates the file,     *)
(* then the loop writes generate_record(0), (1), ... until None.           *)
(***************************************************************************)
RECURSIVE InitLoop(_, _)
InitLoop(f, idx) ==
    IF generate_record(idx) = None THEN f
    ELSE InitLoop(WriteAt(f, Len(f), Encode(generate_record(idx))), idx + 1)

\* Mutant: the file opened "rb+" instead of "wb", so nothing is truncated.
Initialize_NoTruncate ==
    /\ pc = "idle"
    /\ exists' = TRUE
    /\ file' = WriteAt(file, 0, InitLoop(<<>>, 0))
    /\ Return(Call("init", 0, NoRec, NoQuery), <<"Initialized">>, <<>>)

Initialize ==
    /\ pc = "idle"
    /\ exists' = TRUE
    /\ file' = InitLoop(<<>>, 0)
    /\ Return(Call("init", 0, NoRec, NoQuery), <<"Initialized">>, <<>>)

(***************************************************************************)
(* print_db_from_file.                                                     *)
(***************************************************************************)
\* Mutant: a short read taken for the end of the file.
RECURSIVE ScanLoop_NoMarker(_, _)
ScanLoop_NoMarker(f, idx) ==
    LET data == ReadAt(f, (idx - 1) * RECORD_SIZE, RECORD_SIZE)
    IN  IF Len(data) # RECORD_SIZE THEN <<>>
        ELSE <<RecordItem(idx, data)>> \o ScanLoop_NoMarker(f, idx + 1)

RECURSIVE ScanLoop(_, _)
ScanLoop(f, idx) ==
    LET data == ReadAt(f, (idx - 1) * RECORD_SIZE, RECORD_SIZE)
    IN  IF data = <<>> THEN <<>>
        ELSE IF Len(data) # RECORD_SIZE THEN <<CorruptItem(idx, data)>>
        ELSE <<RecordItem(idx, data)>> \o ScanLoop(f, idx + 1)

Scan ==
    /\ pc = "idle"
    /\ UNCHANGED <<exists, file>>
    /\ IF ~exists
        THEN Return(Call("scan", 0, NoRec, NoQuery), <<"FileNotFound">>, <<>>)
        ELSE Return(Call("scan", 0, NoRec, NoQuery),
                    IF Len(file) % RECORD_SIZE # 0 THEN <<"SizeWarning">> ELSE <<>>,
                    ScanLoop(file, 1))

(***************************************************************************)
(* insert_record_at.  The first step makes the checks of lines 182-199 and *)
(* packs the record; the later steps are the writes of lines 203-220.      *)
(***************************************************************************)
\* A step that starts an operation going on to further steps.
Begin(c, nextpc, cnt, idx, data) ==
    /\ pc' = nextpc
    /\ call' = c
    /\ pre' = file
    /\ msgs' = <<>>
    /\ out' = <<>>
    /\ n' = cnt
    /\ i' = idx
    /\ chunk' = <<>>
    /\ new_data' = data
    /\ UNCHANGED <<strategy, noted>>

\* Mutant: the size check left out.
InsertCheck_NoSize(pos) ==
    IF ~exists THEN "FileNotFound"
    ELSE IF pos < 1 THEN "PositionOutOfRange"
    ELSE IF pos > (Len(file) \div RECORD_SIZE) + 1 THEN "PositionOutOfRange"
    ELSE ""

\* Mutant: the upper bound off by one (pos > n).
InsertCheck_OffByOne(pos) ==
    IF ~exists THEN "FileNotFound"
    ELSE IF pos < 1 THEN "PositionOutOfRange"
    ELSE IF Len(file) % RECORD_SIZE # 0 THEN "SizeInconsistency"
    ELSE IF pos > Len(file) \div RECORD_SIZE THEN "PositionOutOfRange"
    ELSE ""

\* The message insert_record_at returns early with, or "" when it goes on.
InsertCheck(pos) ==
    IF ~exists THEN "FileNotFound"
    ELSE IF pos < 1 THEN "PositionOutOfRange"
    ELSE IF Len(file) % RECORD_SIZE # 0 THEN "SizeInconsistency"
    ELSE IF pos > (Len(file) \div RECORD_SIZE) + 1 THEN "PositionOutOfRange"
    ELSE ""

InsertAt(pos, r) ==
    /\ pc = "idle"
    /\ UNCHANGED <<exists, file>>
    /\ LET c == Call("insert", pos, r, NoQuery)
           cnt == Len(file) \div RECORD_SIZE
       IN  IF InsertCheck(pos) # ""
           THEN Return(c, <<InsertCheck(pos)>>, <<>>)
           ELSE /\ cnt < MaxRecs
                /\ Begin(c, IF pos = cnt + 1 THEN "ins_append" ELSE "ins_loop",
                         cnt, cnt - 1, Encode(r))

\* Leaving the operation: its closing message; the locals die.
Finish(m) ==
    /\ pc' = "idle"
    /\ msgs' = Append(msgs, m)
    /\ n' = 0
    /\ i' = 0
    /\ chunk' = <<>>
    /\ new_data' = <<>>
    /\ UNCHANGED <<exists, call, out, pre, strategy, noted>>

\* Mutant: f.seek(0) for f.seek(0, 2).
InsertAppend_Start ==
    /\ pc = "ins_append"
    /\ file' = WriteAt(file, 0, new_data)
    /\ Finish("Appended")

\* pos == n + 1: f.seek(0, 2); f.write(new_data)
InsertAppend ==
    /\ pc = "ins_append"
    /\ file' = WriteAt(file, Len(file), new_data)
    /\ Finish("Appended")

\* Mutant: the read taken one slot too far.
InsertShiftRead_Next ==
    /\ pc = "ins_loop"
    /\ i > call.pos - 2
    /\ chunk' = ReadAt(file, (i + 1) * RECORD_SIZE, RECORD_SIZE)
    /\ pc' = "ins_write"
    /\ UNCHANGED <<exists, file, call, n, i, new_data, out, msgs, pre, strategy, noted>>

\* for i in range(n - 1, pos - 2, -1): f.seek(i * RECORD_SIZE); chunk = f.read(RECORD_SIZE)
InsertShiftRead ==
    /\ pc = "ins_loop"
    /\ i > call.pos - 2
    /\ chunk' = ReadAt(file, i * RECORD_SIZE, RECORD_SIZE)
    /\ pc' = "ins_write"
    /\ UNCHANGED <<exists, file, call, n, i, new_data, out, msgs, pre, strategy, noted>>

\* Mutant: the write started one byte off the slot.
InsertShiftWrite_Misaligned ==
    /\ pc = "ins_write"
    /\ file' = WriteAt(file, (i + 1) * RECORD_SIZE + 1, chunk)
    /\ i' = i - 1
    /\ pc' = "ins_loop"
    /\ UNCHANGED <<exists, call, n, chunk, new_data, out, msgs, pre, strategy, noted>>

\* Mutant: the chunk written back where it was read.
InsertShiftWrite_NoShift ==
    /\ pc = "ins_write"
    /\ file' = WriteAt(file, i * RECORD_SIZE, chunk)
    /\ i' = i - 1
    /\ pc' = "ins_loop"
    /\ UNCHANGED <<exists, call, n, chunk, new_data, out, msgs, pre, strategy, noted>>

\* f.seek((i + 1) * RECORD_SIZE); f.write(chunk)
InsertShiftWrite ==
    /\ pc = "ins_write"
    /\ file' = WriteAt(file, (i + 1) * RECORD_SIZE, chunk)
    /\ i' = i - 1
    /\ pc' = "ins_loop"
    /\ UNCHANGED <<exists, call, n, chunk, new_data, out, msgs, pre, strategy, noted>>

\* Mutant: the new record written one slot too low.
InsertWriteNew_Below ==
    /\ pc = "ins_loop"
    /\ ~(i > call.pos - 2)
    /\ file' = WriteAt(file, Max(call.pos - 2, 0) * RECORD_SIZE, new_data)
    /\ Finish("Inserted")

\* After the loop: f.seek((pos - 1) * RECORD_SIZE); f.write(new_data)
InsertWriteNew ==
    /\ pc = "ins_loop"
    /\ ~(i > call.pos - 2)
    /\ file' = WriteAt(file, (call.pos - 1) * RECORD_SIZE, new_data)
    /\ Finish("Inserted")

(***************************************************************************)
(* delete_record.  The first step makes the checks of lines 225-252; the   *)
(* later steps are the writes and the truncate of lines 254-263.           *)
(***************************************************************************)
\* Mutant: the empty-store check left out.
DeleteCheck_NoEmpty(pos) ==
    IF ~exists THEN "FileNotFound"
    ELSE IF pos < 1 THEN "PositionOutOfRange"
    ELSE IF Len(file) % RECORD_SIZE # 0 THEN "SizeInconsistency"
    ELSE IF pos > Len(file) \div RECORD_SIZE THEN "PositionOutOfRange"
    ELSE ""

\* Mutant: the upper bound left out.
DeleteCheck_NoUpper(pos) ==
    IF ~exists THEN "FileNotFound"
    ELSE IF pos < 1 THEN "PositionOutOfRange"
    ELSE IF Len(file) % RECORD_SIZE # 0 THEN "SizeInconsistency"
    ELSE IF Len(file) \div RECORD_SIZE = 0 THEN "EmptyStore"
    ELSE ""

\* The message delete_record returns early with, or "" when it goes on.
DeleteCheck(pos) ==
    IF ~exists THEN "FileNotFound"
    ELSE IF pos < 1 THEN "PositionOutOfRange"
    ELSE IF Len(file) % RECORD_SIZE # 0 THEN "SizeInconsistency"
    ELSE IF Len(file) \div RECORD_SIZE = 0 THEN "EmptyStore"
    ELSE IF pos > Len(file) \div RECORD_SIZE THEN "PositionOutOfRange"
    ELSE ""

DeleteAt(pos) ==
    /\ pc = "idle"
    /\ UNCHANGED <<exists, file>>
    /\ LET c == Call("delete", pos, NoRec, NoQuery)
       IN  IF DeleteCheck(pos) # ""
           THEN Return(c, <<DeleteCheck(pos)>>, <<>>)
           ELSE Begin(c, "del_loop", Len(file) \div RECORD_SIZE, pos, <<>>)

\* Mutant: the read taken from the slot about to be overwritten.
DeleteShiftRead_Prev ==
    /\ pc = "del_loop"
    /\ i < n
    /\ chunk' = ReadAt(file, (i - 1) * RECORD_SIZE, RECORD_SIZE)
    /\ pc' = "del_write"
    /\ UNCHANGED <<exists, file, call, n, i, new_data, out, msgs, pre, strategy, noted>>

\* for i in range(pos, n): f.seek(i * RECORD_SIZE); chunk = f.read(RECORD_SIZE)
DeleteShiftRead ==
    /\ pc = "del_loop"
    /\ i < n
    /\ chunk' = ReadAt(file, i * RECORD_SIZE, RECORD_SIZE)
    /\ pc' = "del_write"
    /\ UNCHANGED <<exists, file, call, n, i, new_data, out, msgs, pre, strategy, noted>>

\* Mutant: the chunk written back where it was read.
DeleteShiftWrite_NoShift ==
    /\ pc = "del_write"
    /\ file' = WriteAt(file, i * RECORD_SIZE, chunk)
    /\ i' = i + 1
    /\ pc' = "del_loop"
    /\ UNCHANGED <<exists, call, n, chunk, new_data, out, msgs, pre, strategy, noted>>

\* f.seek((i - 1) * RECORD_SIZE); f.write(chunk)
DeleteShiftWrite ==
    /\ pc = "del_write"
    /\ file' = WriteAt(file, (i - 1) * RECORD_SIZE, chunk)
    /\ i' = i + 1
    /\ pc' = "del_loop"
    /\ UNCHANGED <<exists, call, n, chunk, new_data, out, msgs, pre, strategy, noted>>

\* Mutant: truncate given a record count for a byte size.
DeleteTruncate_Count ==
    /\ pc = "del_loop"
    /\ ~(i < n)
    /\ file' = TruncateTo(file, n - 1)
    /\ Finish("Deleted")

\* After the loop: f.truncate((n - 1) * RECORD_SIZE)
DeleteTruncate ==
    /\ pc = "del_loop"
    /\ ~(i < n)
    /\ file' = TruncateTo(file, (n - 1) * RECORD_SIZE)
    /\ Finish("Deleted")

(***************************************************************************)
(* The searches.  Each reads the file in RECORD_SIZE chunks as Scan does   *)
(* and prints the records its predicate accepts.                           *)
(***************************************************************************)
\* Mutant: a count that fails to parse taken for a match.
FieldMatch_Raises(rec, field_num, value) ==
    IF field_num = 1 THEN rec.name = value
    ELSE IF field_num = 2
        THEN ParseInt(value).ok => rec.count = ParseInt(value).val
    ELSE IF field_num = 3
        THEN ParseFloat(value).ok /\ FloatEq(rec.price, ParseFloat(value).val)
    ELSE rec.category = value

\* The per-field comparison of one_field_search, lines 317-330.
FieldMatch(rec, field_num, value) ==
    IF field_num = 1 THEN rec.name = value
    ELSE IF field_num = 2
        THEN ParseInt(value).ok /\ rec.count = ParseInt(value).val
    ELSE IF field_num = 3
        THEN ParseFloat(value).ok /\ FloatEq(rec.price, ParseFloat(value).val)
    ELSE rec.category = value

\* Mutant: the copy compares the name where it should the category.
TwoFieldsOk_Name(rec, field_num, value) ==
    IF field_num = 1 THEN rec.name = value
    ELSE IF field_num = 2
        THEN ParseInt(value).ok /\ rec.count = ParseInt(value).val
    ELSE IF field_num = 3
        THEN ParseFloat(value).ok /\ FloatEq(rec.price, ParseFloat(value).val)
    ELSE rec.name = value

\* two_fields_search's own copy of the comparison, lines 385-397 for the
\* first field and 400-412 for the second.
TwoFieldsOk(rec, field_num, value) ==
    IF field_num = 1 THEN rec.name = value
    ELSE IF field_num = 2
        THEN ParseInt(value).ok /\ rec.count = ParseInt(value).val
    ELSE IF field_num = 3
        THEN ParseFloat(value).ok /\ FloatEq(rec.price, ParseFloat(value).val)
    ELSE rec.category = value

\* digit_search's reading of its condition: the operator, the number text
\* and the target it compares with.
CondOp(q) == Strip(q.v1)[1]
CondNumStr(q) == Strip(Tail(Strip(q.v1)))
CondIsFloat(q) == IndexOf(CondNumStr(q), {46}, 1) # 0
CondTarget(q) ==
    IF CondIsFloat(q) THEN ParseFloat(CondNumStr(q))
    ELSE LET v == ParseInt(CondNumStr(q)) IN [ok |-> v.ok, val |-> <<v.val, 1>>]

\* Mutant: the count compared whatever the literal's form.
DigitMatch_Count(rec, op, isFloat, target) ==
    LET x == <<rec.count, 1>>
    IN  \/ op = 62 /\ FloatLess(target, x)
        \/ op = 60 /\ FloatLess(x, target)
        \/ op = 61 /\ FloatEq(x, target)

\* The comparison of lines 482-499: price against a float target, count
\* against an int target.
DigitMatch(rec, op, isFloat, target) ==
    LET x == IF isFloat THEN rec.price ELSE <<rec.count, 1>>
    IN  \/ op = 62 /\ FloatLess(target, x)
        \/ op = 60 /\ FloatLess(x, target)
        \/ op = 61 /\ FloatEq(x, target)

\* What each search prints a record for.
Matches(op, q, rec) ==
    IF op = "find1" THEN FieldMatch(rec, ParseInt(q.f1).val, q.v1)
    ELSE IF op = "find2"
        THEN /\ TwoFieldsOk(rec, ParseInt(q.f1).val, q.v1)
             /\ TwoFieldsOk(rec, ParseInt(q.f2).val, q.v2)
    ELSE DigitMatch(rec, CondOp(q), CondIsFloat(q), CondTarget(q).val)

\* The loop of lines 304-336, 373-421 and 470-505.
RECURSIVE SearchLoop(_, _, _, _)
SearchLoop(f, idx, op, q) ==
    LET data == ReadAt(f, (idx - 1) * RECORD_SIZE, RECORD_SIZE)
    IN  IF data = <<>> THEN <<>>
        ELSE IF Len(data) # RECORD_SIZE THEN <<CorruptItem(idx, data)>>
        ELSE (IF Matches(op, q, unpack_record(data))
              THEN <<RecordItem(idx, data)>> ELSE <<>>)
             \o SearchLoop(f, idx + 1, op, q)

\* found stays False exactly when no record was printed.
Found(items) == \E k \in 1..Len(items) : items[k].kind = "record"

SearchResult(c, items) ==
    Return(c, IF Found(items) THEN <<>> ELSE <<"NoMatch">>, items)

\* The message one_field_search returns early with, or "".
OneFieldCheck(q) ==
    IF ~exists THEN "FileNotFound"
    ELSE IF Len(file) % RECORD_SIZE # 0 THEN "SizeInconsistency"
    ELSE IF Len(file) \div RECORD_SIZE = 0 THEN "EmptyStore"
    ELSE IF ~ParseInt(q.f1).ok THEN "FieldNotNumber"
    ELSE IF ParseInt(q.f1).val \notin {1, 2, 3, 4} THEN "FieldOutOfRange"
    ELSE ""

\* Mutant: the file opened "wb+" instead of "rb".
one_field_search_wb(q) ==
    /\ pc = "idle"
    /\ UNCHANGED exists
    /\ file' = IF exists THEN <<>> ELSE file
    /\ LET c == Call("find1", 0, NoRec, q)
       IN  IF OneFieldCheck(q) # ""
           THEN Return(c, <<OneFieldCheck(q)>>, <<>>)
           ELSE SearchResult(c, SearchLoop(<<>>, 1, c.op, q))

one_field_search(q) ==
    /\ pc = "idle"
    /\ UNCHANGED <<exists, file>>
    /\ LET c == Call("find1", 0, NoRec, q)
       IN  IF OneFieldCheck(q) # ""
           THEN Return(c, <<OneFieldCheck(q)>>, <<>>)
           ELSE SearchResult(c, SearchLoop(file, 1, c.op, q))

\* Mutant: the fields compared only after the file's size is checked.
TwoFieldsCheck_Late(q) ==
    IF ~exists THEN "FileNotFound"
    ELSE IF ~ParseInt(q.f1).ok \/ ~ParseInt(q.f2).ok THEN "FieldNotNumber"
    ELSE IF Len(file) % RECORD_SIZE # 0 THEN "SizeInconsistency"
    ELSE IF Len(file) \div RECORD_SIZE = 0 THEN "EmptyStore"
    ELSE IF ParseInt(q.f1).val = ParseInt(q.f2).val THEN "FieldsEqual"
    ELSE IF \/ ParseInt(q.f1).val \notin {1, 2, 3, 4}
            \/ ParseInt(q.f2).val \notin {1, 2, 3, 4} THEN "FieldOutOfRange"
    ELSE ""

\* The message two_fields_search returns early with, or "".
TwoFieldsCheck(q) ==
    IF ~exists THEN "FileNotFound"
    ELSE IF ~ParseInt(q.f1).ok \/ ~ParseInt(q.f2).ok THEN "FieldNotNumber"
    ELSE IF ParseInt(q.f1).val = ParseInt(q.f2).val THEN "FieldsEqual"
    ELSE IF \/ ParseInt(q.f1).val \notin {1, 2, 3, 4}
            \/ ParseInt(q.f2).val \notin {1, 2, 3, 4} THEN "FieldOutOfRange"
    ELSE IF Len(file) % RECORD_SIZE # 0 THEN "SizeInconsistency"
    ELSE IF Len(file) \div RECORD_SIZE = 0 THEN "EmptyStore"
    ELSE ""

two_fields_search(q) ==
    /\ pc = "idle"
    /\ UNCHANGED <<exists, file>>
    /\ LET c == Call("find2", 0, NoRec, q)
       IN  IF TwoFieldsCheck(q) # ""
           THEN Return(c, <<TwoFieldsCheck(q)>>, <<>>)
           ELSE SearchResult(c, SearchLoop(file, 1, c.op, q))

\* Mutant: the file's size checked before the condition is read.
DigitCheck_SizeFirst(q) ==
    IF ~exists THEN "FileNotFound"
    ELSE IF Len(file) % RECORD_SIZE # 0 THEN "SizeInconsistency"
    ELSE IF Len(file) \div RECORD_SIZE = 0 THEN "EmptyStore"
    ELSE IF Strip(q.v1) = <<>> THEN "EmptyCondition"
    ELSE IF CondOp(q) \notin {62, 60, 61} THEN "BadOperator"
    ELSE IF CondNumStr(q) = <<>> THEN "NoNumber"
    ELSE IF ~CondTarget(q).ok THEN "BadNumber"
    ELSE ""

\* Mutant: the empty-store check left out.
DigitCheck_NoEmpty(q) ==
    IF ~exists THEN "FileNotFound"
    ELSE IF Strip(q.v1) = <<>> THEN "EmptyCondition"
    ELSE IF CondOp(q) \notin {62, 60, 61} THEN "BadOperator"
    ELSE IF CondNumStr(q) = <<>> THEN "NoNumber"
    ELSE IF ~CondTarget(q).ok THEN "BadNumber"
    ELSE IF Len(file) % RECORD_SIZE # 0 THEN "SizeInconsistency"
    ELSE ""

\* The message digit_search returns early with, or "".
DigitCheck(q) ==
    IF ~exists THEN "FileNotFound"
    ELSE IF Strip(q.v1) = <<>> THEN "EmptyCondition"
    ELSE IF CondOp(q) \notin {62, 60, 61} THEN "BadOperator"
    ELSE IF CondNumStr(q) = <<>> THEN "NoNumber"
    ELSE IF ~CondTarget(q).ok THEN "BadNumber"
    ELSE IF Len(file) % RECORD_SIZE # 0 THEN "SizeInconsistency"
    ELSE IF Len(file) \div RECORD_SIZE = 0 THEN "EmptyStore"
    ELSE ""

digit_search(q) ==
    /\ pc = "idle"
    /\ UNCHANGED <<exists, file>>
    /\ LET c == Call("digit", 0, NoRec, q)
       IN  IF DigitCheck(q) # ""
           THEN Return(c, <<DigitCheck(q)>>, <<>>)
           ELSE SearchResult(c, SearchLoop(file, 1, c.op, q))

(***************************************************************************)
(* Another program cutting the last record of the file short between two   *)
(* operations: the only way a file of this program gets a length that is   *)
(* no multiple of RECORD_SIZE.                                             *)
(***************************************************************************)
ExternalTruncate(len) ==
    /\ pc = "idle"
    /\ exists
    /\ Len(file) % RECORD_SIZE = 0
    /\ len >= 0
    /\ file' = TruncateTo(file, len)
    /\ UNCHANGED exists
    /\ Return(Call("truncate", len, NoRec, NoQuery), <<>>, <<>>)

Next ==
    \/ Initialize
    \/ Scan
    \/ \E pos \in Positions, r \in InsertRecs : InsertAt(pos, r)
    \/ InsertAppend
    \/ InsertShiftRead
    \/ InsertShiftWrite
    \/ InsertWriteNew
    \/ \E pos \in Positions : DeleteAt(pos)
    \/ DeleteShiftRead
    \/ DeleteShiftWrite
    \/ DeleteTruncate

External ==
    \E m \in TailLens : ExternalTruncate(Len(file) - RECORD_SIZE + m)

Search ==
    \/ \E q \in OneFieldQueries : one_field_search(q)
    \/ \E q \in TwoFieldQueries : two_fields_search(q)
    \/ \E q \in Conditions : digit_search(q)

NextExt == Next \/ External

NextQuery == Scan \/ Search

\* The program's mutating operations and Scan, on a file only it touches.
Spec == Init /\ [][Next]_vars

\* The same, with the file open to truncation by others.
SpecExt == Init /\ [][NextExt]_vars

\* The reading operations, on every store of up to MaxStoreRecs records.
SpecQuery == InitQuery /\ [][NextQuery]_vars

\* A record through the codec: data = pack_record(*rec), then
\* unpack_record(data), as insert_record_at and print_db_from_file do on
\* either side of the file.
RoundTrip(r) ==
    /\ pc = "idle"
    /\ call' = Call("codec", 0, r, NoQuery)
    /\ new_data' = Encode(r)
    /\ out' = <<RecordItem(1, Encode(r))>>
    /\ UNCHANGED <<exists, file, pc, n, i, chunk, msgs, pre, strategy, noted>>

NextCodec == \E r \in CodecRecs : RoundTrip(r)

\* The codec alone, on every record of CodecRecs.
SpecCodec == Init /\ [][NextCodec]_vars

(***************************************************************************)
(* Two operations in a row, the second undoing the first: an insert and    *)
(* then a delete at the same position, or a delete and then an insert, at  *)
(* the same position, of a record given back.  The first operation, once   *)
(* complete, is noted: its arguments, the file before it and after it.     *)
(***************************************************************************)
\* The record print_db_from_file shows at position p of the file f.
RecordAt(f, p) == unpack_record(Slot(f, p))

\* A store as the operations left it: a well-formed file.
InitUndo ==
    /\ exists = TRUE
    /\ \E s \in Stores : file = FileOf(s)
    /\ pc = "idle"
    /\ call = Call("none", 0, NoRec, NoQuery)
    /\ n = 0
    /\ i = 0
    /\ chunk = <<>>
    /\ new_data = <<>>
    /\ out = <<>>
    /\ msgs = <<>>
    /\ pre = <<>>
    /\ betrayed = FALSE
    /\ opponent_last_move = None
    /\ lines = <<>>
    /\ moves = <<>>
    /\ noted = NoNote

\* The first operation: choice 4 or choice 5 of the menu.
FirstInsert ==
    /\ call.op = "none"
    /\ \E pos \in Positions, r \in InsertRecs : InsertAt(pos, r)

FirstDelete ==
    /\ call.op = "none"
    /\ \E pos \in Positions : DeleteAt(pos)

\* The first operation has returned and changed the file: it is noted.
Note ==
    /\ pc = "idle"
    /\ noted = NoNote
    /\ call.op \in {"insert", "delete"}
    /\ file # pre
    /\ noted' = [call |-> call, pre |-> pre, file |-> file]
    /\ UNCHANGED <<exists, file, pc, call, locals, out, msgs, pre, strategy>>

\* Choice 5 right after an insert: a delete at the same position.
ThenDelete ==
    /\ noted.call.op = "insert"
    /\ call = noted.call
    /\ DeleteAt(noted.call.pos)

\* Choice 4 right after a delete: an insert at the same position, of the
\* record that was shown there or of a record given before.
ThenInsert ==
    /\ noted.call.op = "delete"
    /\ call = noted.call
    /\ \E r \in InsertRecs \cup {RecordAt(noted.pre, noted.call.pos)} :
           InsertAt(noted.call.pos, r)

NextUndo ==
    \/ FirstInsert
    \/ FirstDelete
    \/ Note
    \/ ThenDelete
    \/ ThenInsert
    \/ InsertAppend
    \/ InsertShiftRead
    \/ InsertShiftWrite
    \/ InsertWriteNew
    \/ DeleteShiftRead
    \/ DeleteShiftWrite
    \/ DeleteTruncate

\* An insert or a delete on every store of up to MaxStoreRecs records, and
\* the operation undoing it.
SpecUndo == InitUndo /\ [][NextUndo]_vars

(***************************************************************************)
(* The strategy programs: each reads a line (the opponent's move, empty on *)
(* the first round), prints its move, and loops until end of input.        *)
(***************************************************************************)
\* str.upper() on ASCII text.
Upper(t) == [k \in 1..Len(t) |-> IF t[k] >= 97 /\ t[k] <= 122 THEN t[k] - 32 ELSE t[k]]

\* "COOPERATE" and "DEFECT".
COOPERATE == <<67, 79, 79, 80, 69, 82, 65, 84, 69>>
DEFECT == <<68, 69, 70, 69, 67, 84>>

\* A str object, where None may stand instead.
Str(t) == [str |-> t]

\* Lines a program may be sent: '', 'DEFECT', 'COOPERATE', ' defect '.
InputLines == {<<>>, DEFECT, COOPERATE, <<32, 100, 101, 102, 101, 99, 116, 32>>}

\* The lines of the protocol: an empty line on the first round ('' or ' '),
\* the opponent's move on every later one.
FirstLines == {<<>>, <<32>>}
MoveLines == {DEFECT, COOPERATE, <<32, 100, 101, 102, 101, 99, 116, 32>>}

\* The database program's variables, which the strategies never touch.
database == <<exists, file, call, n, i, chunk, new_data, out, msgs, pre>>

\* A strategy program at its first input().
InitStrategy ==
    /\ exists = FALSE
    /\ file = <<>>
    /\ pc = "input"
    /\ call = Call("none", 0, NoRec, NoQuery)
    /\ n = 0
    /\ i = 0
    /\ chunk = <<>>
    /\ new_data = <<>>
    /\ out = <<>>
    /\ msgs = <<>>
    /\ pre = <<>>
    /\ betrayed = FALSE
    /\ opponent_last_move = None
    /\ lines = <<>>
    /\ moves = <<>>
    /\ noted = NoNote

\* Mutant: the grudge dropped when the opponent cooperates again.
grudger_forgiving(text) ==
    /\ pc = "input"
    /\ Len(lines) < MaxRounds
    /\ LET line == Strip(text)
           now == Upper(line) = DEFECT
       IN  /\ betrayed' = now
           /\ moves' = Append(moves, IF now THEN DEFECT ELSE COOPERATE)
    /\ lines' = Append(lines, text)
    /\ UNCHANGED <<database, noted, pc, opponent_last_move>>

\* grudger.py, one pass of the loop of main, lines 27-40.
grudger_main(text) ==
    /\ pc = "input"
    /\ Len(lines) < MaxRounds
    /\ LET line == Strip(text)
           now == IF Upper(line) = DEFECT THEN TRUE ELSE betrayed
       IN  /\ betrayed' = now
           /\ moves' = Append(moves, IF now THEN DEFECT ELSE COOPERATE)
    /\ lines' = Append(lines, text)
    /\ UNCHANGED <<database, noted, pc, opponent_last_move>>

\* input() raises EOFError: break (lines 42-43).
grudger_EOFError ==
    /\ pc = "input"
    /\ pc' = "exit"
    /\ UNCHANGED <<database, strategy, noted>>

NextGrudger ==
    \/ \E text \in InputLines : grudger_main(text)
    \/ grudger_EOFError

SpecGrudger == InitStrategy /\ [][NextGrudger]_vars

\* Mutant: only the opponent's first move remembered.
tit_for_tat_first(text) ==
    /\ pc = "input"
    /\ Len(lines) < MaxRounds
    /\ LET line == Strip(text)
           last == IF line # <<>> /\ opponent_last_move = None
                   THEN Str(Upper(line)) ELSE opponent_last_move
       IN  /\ opponent_last_move' = last
           /\ moves' = Append(moves,
                  IF last = None THEN COOPERATE
                  ELSE IF last = Str(DEFECT) THEN DEFECT
                  ELSE COOPERATE)
    /\ lines' = Append(lines, text)
    /\ UNCHANGED <<database, noted, pc, betrayed>>

\* tit_for_tat.py, one pass of the loop of main, lines 24-40.
tit_for_tat_main(text) ==
    /\ pc = "input"
    /\ Len(lines) < MaxRounds
    /\ LET line == Strip(text)
           last == IF line # <<>> THEN Str(Upper(line)) ELSE opponent_last_move
       IN  /\ opponent_last_move' = last
           /\ moves' = Append(moves,
                  IF last = None THEN COOPERATE
                  ELSE IF last = Str(DEFECT) THEN DEFECT
                  ELSE COOPERATE)
    /\ lines' = Append(lines, text)
    /\ UNCHANGED <<database, noted, pc, betrayed>>

\* input() raises EOFError: break (lines 42-43).
tit_for_tat_EOFError ==
    /\ pc = "input"
    /\ pc' = "exit"
    /\ UNCHANGED <<database, strategy, noted>>

\* The opponent's side of the protocol: nothing to report before the first
\* round, its last move before every later one.
NextTitForTat ==
    \/ \E text \in (IF lines = <<>> THEN FirstLines ELSE MoveLines) :
           tit_for_tat_main(text)
    \/ tit_for_tat_EOFError

SpecTitForTat == InitStrategy /\ [][NextTitForTat]_vars

(***************************************************************************)
(* Vocabulary of the properties.                                           *)
(***************************************************************************)
\* The last operation invoked has run to completion.
Completed(op) == pc = "idle" /\ call.op = op

\* The number of whole records the file held when the operation was invoked.
PreN == Len(pre) \div RECORD_SIZE

\* A record the codec gives back as it was given.
RoundTrips(r) == unpack_record(Encode(r)) = r

\* s is a scan of exactly cnt records, numbered 1..cnt, with no marker.
ScanOfRecords(s, cnt) ==
    /\ Len(s) = cnt
    /\ \A k \in 1..cnt : s[k].kind = "record" /\ s[k].idx = k

ReadOps == {"scan", "find1", "find2", "digit"}

(***************************************************************************)
(* C1  Insert-then-scan.  After InsertAt(p, r) with 1 <= p <= n+1 on a     *)
(* well-formed n-record store, Scan yields exactly n+1 records: r, as      *)
(* pack_record stores it (r itself when r round-trips), is at position p;  *)
(* every record previously at a position < p is unchanged at the same      *)
(* position; every record previously at q >= p is now at q+1.              *)
(***************************************************************************)
C1_InsertThenScan ==
    (/\ Completed("insert") /\ exists /\ WellFormed(pre)
     /\ call.pos >= 1 /\ call.pos <= PreN + 1)
    => LET before == ScanLoop(pre, 1)
           after == ScanLoop(file, 1)
       IN  /\ ScanOfRecords(before, PreN)
           /\ ScanOfRecords(after, PreN + 1)
           /\ Len(file) = Len(pre) + RECORD_SIZE
           /\ Slot(file, call.pos) = Encode(call.rec)
           /\ after[call.pos].rec = unpack_record(Encode(call.rec))
           /\ RoundTrips(call.rec) => after[call.pos].rec = call.rec
           /\ \A q \in 1..(call.pos - 1) :
                  /\ Slot(file, q) = Slot(pre, q)
                  /\ after[q].rec = before[q].rec
           /\ \A q \in call.pos..PreN :
                  /\ Slot(file, q + 1) = Slot(pre, q)
                  /\ after[q + 1].rec = before[q].rec

\* An insert at the front of a two-record store, of a record that round-trips:
\* both records were shifted.
C1_Witness ==
    /\ Completed("insert") /\ exists /\ WellFormed(pre)
    /\ PreN = 2 /\ call.pos = 1 /\ RoundTrips(call.rec)
    /\ msgs = <<"Inserted">>
    /\ Slot(pre, 1) # Slot(pre, 2)

(***************************************************************************)
(* C2  Delete-then-scan.  After DeleteAt(p) with 1 <= p <= n on a          *)
(* well-formed n-record store, the file is shorter by exactly RECORD_SIZE  *)
(* and Scan yields exactly n-1 records: positions below p are unchanged,   *)
(* every record previously at q > p is now at q-1, the record at p is gone.*)
(***************************************************************************)
C2_DeleteThenScan ==
    (/\ Completed("delete") /\ exists /\ WellFormed(pre)
     /\ call.pos >= 1 /\ call.pos <= PreN)
    => LET before == ScanLoop(pre, 1)
           after == ScanLoop(file, 1)
       IN  /\ Len(file) = Len(pre) - RECORD_SIZE
           /\ ScanOfRecords(before, PreN)
           /\ ScanOfRecords(after, PreN - 1)
           /\ \A q \in 1..(call.pos - 1) :
                  /\ Slot(file, q) = Slot(pre, q)
                  /\ after[q].rec = before[q].rec
           /\ \A q \in (call.pos + 1)..PreN :
                  /\ Slot(file, q - 1) = Slot(pre, q)
                  /\ after[q - 1].rec = before[q].rec

\* A delete of the first of three distinct records: two records moved.
C2_Witness ==
    /\ Completed("delete") /\ exists /\ WellFormed(pre)
    /\ PreN = 3 /\ call.pos = 1
    /\ msgs = <<"Deleted">>
    /\ Slot(pre, 1) # Slot(pre, 2) /\ Slot(pre, 2) # Slot(pre, 3)

(***************************************************************************)
(* C3  From a store produced by Initialize, after any sequence of          *)
(* Initialize, InsertAt and DeleteAt calls with arbitrary positions, each  *)
(* run to completion (accepted or rejected), the file length is an exact   *)
(* multiple of RECORD_SIZE (43 bytes).                                     *)
(***************************************************************************)
C3_LengthMultiple ==
    (pc = "idle" /\ exists) => Len(file) % RECORD_SIZE = 0 /\ RECORD_SIZE = 43

\* A delete has completed on a store that an earlier insert had changed.
C3_Witness ==
    /\ Completed("delete") /\ exists /\ msgs = <<"Deleted">>
    /\ Len(file) = 2 * RECORD_SIZE
    /\ \E k \in 1..2 : Slot(file, k) \in {Encode(r) : r \in InsertRecs}

(***************************************************************************)
(* C4  (as claimed)  On a file of length k*43 + m, 0 < m < 43, InsertAt    *)
(* and DeleteAt with any position argument fail with SizeInconsistency and *)
(* leave the file unchanged.                                               *)
(***************************************************************************)
C4_AsClaimed ==
    (/\ pc = "idle" /\ call.op \in {"insert", "delete"}
     /\ exists /\ ~WellFormed(pre))
    => msgs = <<"SizeInconsistency">> /\ file = pre

(***************************************************************************)
(* C4  (amended)  On a file of length k*43 + m, 0 < m < 43, InsertAt and   *)
(* DeleteAt leave the file unchanged and fail: with SizeInconsistency when *)
(* the position argument is >= 1, with PositionOutOfRange when it is < 1   *)
(* (the position's lower bound is checked before the file size).           *)
(***************************************************************************)
C4_SizeInconsistency ==
    (/\ pc = "idle" /\ call.op \in {"insert", "delete"}
     /\ exists /\ ~WellFormed(pre))
    => /\ file = pre
       /\ call.pos >= 1 => msgs = <<"SizeInconsistency">>
       /\ call.pos < 1 => msgs = <<"PositionOutOfRange">>

\* An insert at a position that would be valid was refused on a cut file.
C4_Witness ==
    /\ Completed("insert") /\ exists /\ ~WellFormed(pre)
    /\ call.pos >= 1 /\ call.pos <= PreN + 1
    /\ msgs = <<"SizeInconsistency">>

(***************************************************************************)
(* C5  On a well-formed n-record store, InsertAt(n+1, r) succeeds and      *)
(* appends r at end of file; InsertAt(p, r) with p < 1 or p > n+1 fails    *)
(* with PositionOutOfRange and leaves the file unchanged; and no write of  *)
(* an insert is ever under way for a position outside 1..n+1.              *)
(***************************************************************************)
C5_InsertBounds ==
    /\ (Completed("insert") /\ exists /\ WellFormed(pre))
       => /\ call.pos = PreN + 1
             => msgs = <<"Appended">> /\ file = pre \o Encode(call.rec)
          /\ (call.pos < 1 \/ call.pos > PreN + 1)
             => msgs = <<"PositionOutOfRange">> /\ file = pre
    /\ pc \in {"ins_append", "ins_loop", "ins_write"}
       => call.pos >= 1 /\ call.pos <= PreN + 1

\* An append to a non-empty store has completed.
C5_Witness ==
    /\ Completed("insert") /\ exists /\ WellFormed(pre)
    /\ PreN >= 1 /\ call.pos = PreN + 1 /\ msgs = <<"Appended">>

(***************************************************************************)
(* C6  (as claimed)  DeleteAt on a store with zero records fails with      *)
(* EmptyStore for every position argument, positions < 1 included, and     *)
(* leaves the file empty.                                                  *)
(***************************************************************************)
C6_AsClaimed ==
    (Completed("delete") /\ exists /\ pre = <<>>)
    => msgs = <<"EmptyStore">> /\ file = <<>>

(***************************************************************************)
(* C6  (amended)  DeleteAt on a store with zero records leaves the file    *)
(* empty and fails: with EmptyStore for every position argument >= 1, and  *)
(* with PositionOutOfRange for a position < 1 (that check comes first).    *)
(***************************************************************************)
C6_EmptyStore ==
    (Completed("delete") /\ exists /\ pre = <<>>)
    => /\ file = <<>>
       /\ call.pos >= 1 => msgs = <<"EmptyStore">>
       /\ call.pos < 1 => msgs = <<"PositionOutOfRange">>

\* A delete at position 1 of an emptied store was refused.
C6_Witness ==
    /\ Completed("delete") /\ exists /\ pre = <<>>
    /\ call.pos = 1 /\ msgs = <<"EmptyStore">>

(***************************************************************************)
(* C7  On a well-formed store with n >= 1 records, DeleteAt(p) with p < 1  *)
(* or p > n fails with PositionOutOfRange and leaves the file unchanged,   *)
(* DeleteAt(p) with 1 <= p <= n succeeds, and the check precedes every     *)
(* write: a delete is under way, or has changed the file, only for a       *)
(* position in 1..n.                                                       *)
(***************************************************************************)
C7_DeleteBounds ==
    /\ (Completed("delete") /\ exists /\ WellFormed(pre) /\ PreN >= 1)
       => /\ (call.pos < 1 \/ call.pos > PreN)
             => msgs = <<"PositionOutOfRange">> /\ file = pre
          /\ (call.pos >= 1 /\ call.pos <= PreN) => msgs = <<"Deleted">>
    /\ (call.op = "delete" /\ (pc # "idle" \/ file # pre))
       => call.pos >= 1 /\ call.pos <= PreN

\* A delete just past the last record was refused.
C7_Witness ==
    /\ Completed("delete") /\ exists /\ WellFormed(pre)
    /\ PreN >= 1 /\ call.pos = PreN + 1
    /\ msgs = <<"PositionOutOfRange">>

(***************************************************************************)
(* C8  Scan over a file of length k*43 + m, 0 <= m < 43, emits exactly k   *)
(* normal records at positions 1..k in file order; if m > 0 it then emits  *)
(* exactly one corruption marker carrying m, as its last element, and      *)
(* ends normally; if m = 0 it emits no marker.                             *)
(***************************************************************************)
C8_Scan ==
    (Completed("scan") /\ exists)
    => LET k == Len(file) \div 43
           m == Len(file) % 43
       IN  /\ Len(out) = k + (IF m > 0 THEN 1 ELSE 0)
           /\ \A j \in 1..k :
                  /\ out[j].kind = "record"
                  /\ out[j].idx = j
                  /\ out[j].rec = unpack_record(Slot(file, j))
           /\ m > 0 => /\ out[k + 1].kind = "corrupt"
                       /\ out[k + 1].idx = k + 1
                       /\ out[k + 1].len = m
           /\ "FileNotFound" \notin {msgs[j] : j \in 1..Len(msgs)}

\* A scan of two whole records and a 42-byte tail.
C8_Witness ==
    /\ Completed("scan") /\ exists
    /\ Len(file) = 2 * 43 + 42
    /\ Len(out) = 3 /\ out[3].kind = "corrupt" /\ out[3].len = 42

(***************************************************************************)
(* C9  Scan, FindByField, FindByTwoFields and FindByComparison never       *)
(* modify the file, whatever their outcome; and a Scan directly after a    *)
(* Scan yields the same sequence again, starting at position 1.            *)
(***************************************************************************)
C9_ReadOnly ==
    [][ (pc = "idle" /\ pc' = "idle" /\ call'.op \in ReadOps)
        => /\ file' = file
           /\ exists' = exists
           /\ pre' = file
           /\ (call.op = "scan" /\ call'.op = "scan")
              => /\ out' = out
                 /\ out' # <<>> => out'[1].idx = 1 ]_vars

\* A search has printed a match from a three-record store.
C9_Witness ==
    /\ Completed("find1") /\ exists
    /\ Len(file) = 3 * RECORD_SIZE
    /\ out # <<>> /\ msgs = <<>>

(***************************************************************************)
(* C10  After Initialize the file is exactly the back-to-back encodings of *)
(* the records Initialize writes, of length 43 times their number,         *)
(* whatever it held before (a longer file, a size-inconsistent one): so    *)
(* two Initialize calls yield identical bytes.                             *)
(***************************************************************************)
C10_Initialize ==
    Completed("init")
    => /\ exists
       /\ file = Encode(generate_record(0)) \o Encode(generate_record(1))
                 \o Encode(generate_record(2))
       /\ generate_record(3) = None
       /\ Len(file) = 43 * 3

\* Initialize has rewritten a file that was longer than what it writes,
\* size-inconsistent, and began with another record.
C10_Witness ==
    /\ Completed("init") /\ ~WellFormed(pre)
    /\ Len(pre) > 3 * RECORD_SIZE
    /\ Slot(pre, 1) # Encode(generate_record(0))

(***************************************************************************)
(* Vocabulary of the search properties.                                    *)
(***************************************************************************)
\* The positions out shows, as a set.
Shown == {out[k].idx : k \in 1..Len(out)}

\* out lists whole records of the file, at increasing positions.
InFileOrder ==
    /\ \A k \in 1..Len(out) :
           /\ out[k].kind = "record"
           /\ out[k].idx \in 1..NumRecords(file)
           /\ out[k].rec = unpack_record(Slot(file, out[k].idx))
    /\ \A k \in 1..(Len(out) - 1) : out[k].idx < out[k + 1].idx

\* The field selector a text stands for, 0 when it stands for none.
Selector(text) ==
    IF ParseInt(text).ok /\ ParseInt(text).val \in 1..4 THEN ParseInt(text).val ELSE 0

\* The positions whose decoded field equals the value: text equality for
\* name and category, integer equality for count, float equality for price.
EqualAt(f, value) ==
    { j \in 1..NumRecords(file) :
        LET rec == unpack_record(Slot(file, j))
        IN  \/ f = 1 /\ rec.name = value
            \/ f = 2 /\ ParseInt(value).ok /\ ParseInt(value).val = rec.count
            \/ f = 3 /\ ParseFloat(value).ok /\ ParseFloat(value).val[2] # 0
                     /\ ParseFloat(value).val = rec.price
            \/ f = 4 /\ rec.category = value }

\* A well-formed store of at least one record.
NonEmptyStore == exists /\ WellFormed(file) /\ NumRecords(file) >= 1

(***************************************************************************)
(* C11  FindByField(field, value) on a well-formed non-empty store emits   *)
(* exactly the positions of the records whose decoded field equals value,  *)
(* one item per match in increasing file order; a value that does not      *)
(* parse as an integer (count) or a float (price) matches no record and    *)
(* produces no error, only the "no match" result.                          *)
(***************************************************************************)
C11_FindByField ==
    (Completed("find1") /\ NonEmptyStore /\ Selector(call.query.f1) # 0)
    => /\ InFileOrder
       /\ Shown = EqualAt(Selector(call.query.f1), call.query.v1)
       /\ msgs = (IF Shown = {} THEN <<"NoMatch">> ELSE <<>>)
       /\ (/\ Selector(call.query.f1) = 2
           /\ ~ParseInt(call.query.v1).ok) => out = <<>>
       /\ (/\ Selector(call.query.f1) = 3
           /\ ~ParseFloat(call.query.v1).ok) => out = <<>>

\* FindByField(count, "2") has returned exactly position 2 of a
\* three-record store.
C11_Witness ==
    /\ Completed("find1") /\ NonEmptyStore
    /\ NumRecords(file) = 3
    /\ call.query.f1 = <<50>> /\ call.query.v1 = <<50>>
    /\ Shown = {2} /\ Len(out) = 1

\* The operations that search.
SearchOps == {"find1", "find2", "digit"}

\* The query of the last call is one its operation accepts: field
\* selectors in 1..4 (two different ones for two fields); an operator among
\* > < = followed by a number that parses.
ValidQuery ==
    LET q == call.query
    IN  \/ call.op = "find1" /\ Selector(q.f1) # 0
        \/ /\ call.op = "find2"
           /\ Selector(q.f1) # 0 /\ Selector(q.f2) # 0
           /\ Selector(q.f1) # Selector(q.f2)
        \/ /\ call.op = "digit"
           /\ Strip(q.v1) # <<>>
           /\ Strip(q.v1)[1] \in {60, 61, 62}
           /\ Strip(Tail(Strip(q.v1))) # <<>>
           /\ IF \E k \in 1..Len(q.v1) : q.v1[k] = 46
              THEN ParseFloat(Strip(Tail(Strip(q.v1)))).ok
              ELSE ParseInt(Strip(Tail(Strip(q.v1)))).ok

(***************************************************************************)
(* C12  A search with a valid query on a store with zero records reports   *)
(* EmptyStore and prints nothing; a non-empty well-formed store with no    *)
(* matching record gives the distinct "no match" result instead.           *)
(***************************************************************************)
C12_EmptyStore ==
    (pc = "idle" /\ call.op \in SearchOps /\ exists /\ ValidQuery)
    => /\ file = <<>> => (msgs = <<"EmptyStore">> /\ out = <<>>)
       /\ (NonEmptyStore /\ out = <<>>) => msgs = <<"NoMatch">>
       /\ NonEmptyStore => "EmptyStore" \notin {msgs[k] : k \in 1..Len(msgs)}

\* FindByComparison with a valid condition has found the store empty.
C12_Witness ==
    /\ Completed("digit") /\ exists /\ ValidQuery
    /\ file = <<>>
    /\ msgs = <<"EmptyStore">>

\* The positions one_field_search prints for (field, value) on the file.
FoundByField(field, value) ==
    LET q == [f1 |-> field, v1 |-> value, f2 |-> <<>>, v2 |-> <<>>]
        items == SearchLoop(file, 1, "find1", q)
    IN  {items[k].idx : k \in 1..Len(items)}

(***************************************************************************)
(* C13  FindByTwoFields(f1, v1, f2, v2) with f1 # f2 on a well-formed      *)
(* non-empty store emits exactly the positions that FindByField(f1, v1)    *)
(* and FindByField(f2, v2) both emit, in increasing file order.            *)
(***************************************************************************)
C13_TwoFields ==
    (Completed("find2") /\ NonEmptyStore /\ ValidQuery)
    => /\ InFileOrder
       /\ Shown = FoundByField(call.query.f1, call.query.v1)
                  \cap FoundByField(call.query.f2, call.query.v2)
       /\ Shown = EqualAt(Selector(call.query.f1), call.query.v1)
                  \cap EqualAt(Selector(call.query.f2), call.query.v2)
       /\ msgs = (IF Shown = {} THEN <<"NoMatch">> ELSE <<>>)

\* FindByTwoFields(category "фрукт", price "3.5") has returned the one
\* record of the two that FindByField(category "фрукт") returns.
C13_Witness ==
    /\ Completed("find2") /\ NonEmptyStore /\ ValidQuery
    /\ Len(out) = 1
    /\ FoundByField(call.query.f1, call.query.v1) # Shown
    /\ FoundByField(call.query.f2, call.query.v2) = Shown

\* The messages that report an InvalidQuery.
InvalidQuery ==
    {"FieldNotNumber", "FieldsEqual", "FieldOutOfRange",
     "EmptyCondition", "BadOperator", "NoNumber", "BadNumber"}

\* The two field selectors of a query are the same: the same text, or texts
\* of the same number.
SameSelector(q) ==
    \/ q.f1 = q.f2
    \/ ParseInt(q.f1).ok /\ ParseInt(q.f2).ok /\ ParseInt(q.f1).val = ParseInt(q.f2).val

(***************************************************************************)
(* C14  FindByTwoFields with field1 = field2 on an existing file is        *)
(* rejected as InvalidQuery before scanning begins: nothing is emitted and *)
(* the file's state (empty, well-formed, size-inconsistent) is never       *)
(* looked at, whatever the common selector is (in 1..4 or not, a number    *)
(* or not).                                                                *)
(***************************************************************************)
C14_DuplicateFields ==
    (Completed("find2") /\ exists /\ SameSelector(call.query))
    => /\ out = <<>>
       /\ Len(msgs) = 1 /\ msgs[1] \in InvalidQuery
       /\ ParseInt(call.query.f1).ok => msgs = <<"FieldsEqual">>
       /\ ~ParseInt(call.query.f1).ok => msgs = <<"FieldNotNumber">>

\* FindByTwoFields with the selector 7 twice has been rejected for its equal
\* fields on a size-inconsistent file.
C14_Witness ==
    /\ Completed("find2") /\ exists /\ SameSelector(call.query)
    /\ ~WellFormed(file) /\ Len(file) > RECORD_SIZE
    /\ call.query.f1 = <<55>>
    /\ msgs = <<"FieldsEqual">>

\* The operator and the literal of a comparison condition.
OperatorOf(cond) == Strip(cond)[1]
LiteralOf(cond) == Strip(Tail(Strip(cond)))

\* The literal has a fractional separator.
Fractional(lit) == \E k \in 1..Len(lit) : lit[k] = 46

\* The positions whose selected field (price for a fractional literal,
\* count for any other) stands in the operator's relation to the literal.
SatisfiedAt(cond) ==
    LET lit == LiteralOf(cond)
        t == IF Fractional(lit) THEN ParseFloat(lit).val ELSE <<ParseInt(lit).val, 1>>
    IN  { j \in 1..NumRecords(file) :
            LET rec == unpack_record(Slot(file, j))
                x == IF Fractional(lit) THEN rec.price ELSE <<rec.count, 1>>
            IN  \/ OperatorOf(cond) = 62 /\ x[1] * t[2] > t[1] * x[2]
                \/ OperatorOf(cond) = 60 /\ x[1] * t[2] < t[1] * x[2]
                \/ OperatorOf(cond) = 61 /\ x[1] * t[2] = t[1] * x[2] }

\* The store of the first two records Initialize writes:
\* (яблоко, 10, 3.5, фрукт), (книга, 2, 799.0, товар).
TwoRecordStore == Encode(generate_record(0)) \o Encode(generate_record(1))

\* FindByComparison's result in general: the positions that satisfy the
\* condition, in file order.
ComparisonResult ==
    (Completed("digit") /\ NonEmptyStore /\ ValidQuery)
    => /\ InFileOrder
       /\ Shown = SatisfiedAt(call.query.v1)
       /\ msgs = (IF Shown = {} THEN <<"NoMatch">> ELSE <<>>)

\* C15 as the specification states it: on the two-record store ">5" returns
\* exactly position 1 and ">5.0" returns both positions.
C15_AsClaimed ==
    /\ ComparisonResult
    /\ (Completed("digit") /\ exists /\ file = TwoRecordStore)
       => /\ call.query.v1 = <<62, 53>> => Shown = {1}
          /\ call.query.v1 = <<62, 53, 46, 48>> => Shown = {1, 2}

(***************************************************************************)
(* C15  FindByComparison chooses the compared field from the literal's     *)
(* form alone: price for a literal with a '.', count for any other; it     *)
(* emits exactly the positions whose selected field satisfies the operator *)
(* against the literal, in file order.  On the two-record store ">5"       *)
(* returns exactly position 1 (count 10 > 5) and ">5.0" returns exactly    *)
(* position 2 (price 799.0 > 5.0; price 3.5 is not).                       *)
(***************************************************************************)
C15_Comparison ==
    /\ ComparisonResult
    /\ (Completed("digit") /\ exists /\ file = TwoRecordStore)
       => /\ call.query.v1 = <<62, 53>> => Shown = {1}
          /\ call.query.v1 = <<62, 53, 46, 48>> => Shown = {2}

\* ">5.0" has been run on the two-record store and has returned position 2.
C15_Witness ==
    /\ Completed("digit") /\ exists /\ file = TwoRecordStore
    /\ call.query.v1 = <<62, 53, 46, 48>>
    /\ Len(out) = 1 /\ out[1].idx = 2

(***************************************************************************)
(* C16  FindByComparison on an existing file with an operator other than   *)
(* > < =, or with a missing or unparseable literal, fails with             *)
(* InvalidQuery and emits nothing, whatever the state of the file (empty,  *)
(* well-formed, size-inconsistent); it is never reported as "no match",    *)
(* EmptyStore or SizeInconsistency.                                        *)
(***************************************************************************)
C16_InvalidComparison ==
    (Completed("digit") /\ exists /\ ~ValidQuery)
    => /\ out = <<>>
       /\ Len(msgs) = 1 /\ msgs[1] \in InvalidQuery
       /\ msgs[1] = (IF Strip(call.query.v1) = <<>> THEN "EmptyCondition"
                     ELSE IF OperatorOf(call.query.v1) \notin {60, 61, 62}
                     THEN "BadOperator"
                     ELSE IF LiteralOf(call.query.v1) = <<>> THEN "NoNumber"
                     ELSE "BadNumber")

\* "=1.2.3" has been rejected for its number on an empty file.
C16_Witness ==
    /\ Completed("digit") /\ exists /\ ~ValidQuery
    /\ file = <<>>
    /\ msgs = <<"BadNumber">>

\* The text fields fit their widths and the count fits 32 bits.
FitsWidths(r) ==
    /\ Len(Utf8Encode(r.name)) <= 20
    /\ Len(Utf8Encode(r.category)) <= 15
    /\ r.count >= -2147483647 - 1 /\ r.count <= 2147483647

\* x with its factors of two taken out.
RECURSIVE OddPart(_)
OddPart(x) == IF x # 0 /\ x % 2 = 0 THEN OddPart(x \div 2) ELSE x

\* A price in lowest terms is a binary32 value: an integer of at most 24
\* bits times a power of two (exponents within the model's range).
IsBinary32(p) ==
    /\ OddPart(p[2]) = 1
    /\ OddPart(p[1]) < 16777216 /\ OddPart(p[1]) > -16777216

\* A text does not end in a NUL character.
NoTrailingNul(t) == t = <<>> \/ t[Len(t)] # 0

\* The block is 43 bytes: the name's bytes at offset 0 and the category's at
\* 28, each padded with zero bytes; the count at 20; the price at 24.
LayoutOf(r, data) ==
    /\ Len(data) = 43
    /\ \A k \in 1..20 :
           data[k] = (IF k <= Len(Utf8Encode(r.name)) THEN Utf8Encode(r.name)[k] ELSE 0)
    /\ UnpackInt(SubSeq(data, 21, 24)) = r.count
    /\ IsBinary32(r.price) => UnpackFloat(SubSeq(data, 25, 28)) = r.price
    /\ \A k \in 1..15 :
           data[28 + k] = (IF k <= Len(Utf8Encode(r.category))
                           THEN Utf8Encode(r.category)[k] ELSE 0)

SaysDefect(text) == Upper(Strip(text)) = DEFECT

(***************************************************************************)
(* C18  Grudger never defects first and never forgives: its move is        *)
(* COOPERATE in every round before the first round whose input is DEFECT,  *)
(* and DEFECT in that round and in every later round, whatever the         *)
(* opponent plays afterwards.                                              *)
(***************************************************************************)
C18_Grudger ==
    /\ Len(moves) = Len(lines)
    /\ \A k \in 1..Len(moves) :
           moves[k] = (IF \E j \in 1..k : SaysDefect(lines[j])
                       THEN DEFECT ELSE COOPERATE)

\* Grudger has cooperated, met a defection, and defected again on the
\* opponent's return to cooperation.
C18_Witness ==
    /\ Len(moves) >= 3
    /\ moves[1] = COOPERATE
    /\ SaysDefect(lines[2]) /\ moves[2] = DEFECT
    /\ lines[3] = COOPERATE /\ moves[3] = DEFECT

(***************************************************************************)
(* C19  Tit-for-Tat plays COOPERATE on its first move and in every later   *)
(* round plays the move on the input line just read: DEFECT after a        *)
(* DEFECT, COOPERATE after a COOPERATE; it never defects before the        *)
(* opponent has defected.                                                  *)
(***************************************************************************)
C19_TitForTat ==
    /\ Len(moves) = Len(lines)
    /\ moves # <<>> => moves[1] = COOPERATE
    /\ \A k \in 2..Len(moves) :
           moves[k] = (IF SaysDefect(lines[k]) THEN DEFECT ELSE COOPERATE)
    /\ \A k \in 1..Len(moves) :
           moves[k] = DEFECT => \E j \in 1..k : SaysDefect(lines[j])

\* Tit-for-Tat has cooperated first, answered a defection with DEFECT and
\* the cooperation after it with COOPERATE.
C19_Witness ==
    /\ Len(moves) >= 3
    /\ moves[1] = COOPERATE
    /\ SaysDefect(lines[2]) /\ moves[2] = DEFECT
    /\ lines[3] = COOPERATE /\ moves[3] = COOPERATE

\* insert_record_at is between its checks and its last write, shifting.
Shifting == pc \in {"ins_loop", "ins_write"}

(***************************************************************************)
(* C20  During InsertAt(p, r) with p <= n the records are relocated from   *)
(* the last one down to the one at p: at every intermediate step, with i   *)
(* the 0-based index of the record the loop stands at, the slots up to     *)
(* i + 2 are as before the call and every slot above holds the record that *)
(* was one slot below it, so that every record that was in the file before *)
(* the call is still present; the chunk in hand is the record at i + 1;    *)
(* and the slot at p keeps its old record, the new one being written only  *)
(* once that record has its copy at p + 1.                                 *)
(***************************************************************************)
C20_InsertShift ==
    (Shifting /\ call.pos <= n)
    => /\ i >= call.pos - 2 /\ i <= n - 1
       /\ pc = "ins_write" => (i >= call.pos - 1 /\ chunk = Slot(pre, i + 1))
       /\ Len(pre) = n * RECORD_SIZE
       /\ Len(file) = (IF i = n - 1 THEN n ELSE n + 1) * RECORD_SIZE
       /\ \A j \in 1..n :
              /\ j <= i + 2 => Slot(file, j) = Slot(pre, j)
              /\ j >= i + 2 => Slot(file, j + 1) = Slot(pre, j)
              /\ \E k \in 1..NumRecords(file) : Slot(file, k) = Slot(pre, j)
       /\ Slot(file, call.pos) = Slot(pre, call.pos)
       /\ (pc = "ins_loop" /\ i = call.pos - 2)
          => Slot(file, call.pos + 1) = Slot(pre, call.pos)

\* An insert at position 1 of three records stands mid-shift: the last
\* record has its copy, the second is in hand, nothing is lost.
C20_Witness ==
    /\ pc = "ins_write" /\ call.pos = 1 /\ n = 3 /\ i = 1
    /\ Len(file) = 4 * RECORD_SIZE
    /\ Slot(file, 4) = Slot(file, 3)
    /\ Slot(file, 2) # Slot(file, 3)

\* delete_record is between its checks and its truncate.
Deleting == pc \in {"del_loop", "del_write"}

(***************************************************************************)
(* C21  During DeleteAt(p) the records at p+1..n are relocated from p+1    *)
(* upward, each read before its slot is overwritten: at every intermediate *)
(* step, with i the 0-based index of the record the loop stands at, the    *)
(* slots below p and from i on are as before the call and the slots        *)
(* p..i-1 hold the record that was one slot above, so that every record    *)
(* other than the one originally at p is still present; the chunk in hand  *)
(* is the record at i + 1; and the file keeps its length, the truncation   *)
(* coming only after the last record has been copied.                      *)
(***************************************************************************)
C21_DeleteShift ==
    Deleting
    => /\ call.pos >= 1 /\ call.pos <= n
       /\ i >= call.pos /\ i <= n
       /\ pc = "del_write" => (i <= n - 1 /\ chunk = Slot(pre, i + 1))
       /\ Len(pre) = n * RECORD_SIZE
       /\ Len(file) = n * RECORD_SIZE
       /\ \A j \in 1..n :
              /\ (j < call.pos \/ j >= i) => Slot(file, j) = Slot(pre, j)
              /\ (j >= call.pos /\ j <= i - 1) => Slot(file, j) = Slot(pre, j + 1)
              /\ j # call.pos
                 => \E k \in 1..NumRecords(file) : Slot(file, k) = Slot(pre, j)
       /\ (pc = "del_loop" /\ i = n /\ call.pos < n)
          => Slot(file, n - 1) = Slot(pre, n)

\* A delete at position 1 of four records stands mid-shift: the second
\* record has its copy at 1, the third is in hand, the file is still four
\* records long.
C21_Witness ==
    /\ pc = "del_write" /\ call.pos = 1 /\ n = 4 /\ i = 2
    /\ Len(file) = 4 * RECORD_SIZE
    /\ Slot(file, 1) = Slot(pre, 2)
    /\ Slot(file, 1) # Slot(pre, 1)
    /\ chunk = Slot(pre, 3)

(***************************************************************************)
(* C22  With each record write and the truncate atomic, the file length is *)
(* a multiple of RECORD_SIZE at every intermediate point of InsertAt and   *)
(* DeleteAt on a well-formed store.  Before the first write the file is as *)
(* it was; from the first write on, an insert has left n + 1 slots with    *)
(* one record twice, side by side, and no record of before lost, and a     *)
(* delete n slots with one record twice, side by side: never a partial     *)
(* record.                                                                 *)
(***************************************************************************)
C22_WellSized ==
    /\ pc # "idle" => (WellFormed(pre) /\ WellFormed(file))
    /\ pc = "ins_append" => file = pre
    /\ (Shifting /\ i = n - 1) => file = pre
    /\ (Shifting /\ i < n - 1)
       => /\ NumRecords(file) = n + 1
          /\ Slot(file, i + 2) = Slot(file, i + 3)
          /\ \A j \in 1..n : \E k \in 1..(n + 1) : Slot(file, k) = Slot(pre, j)
    /\ (Deleting /\ i = call.pos) => file = pre
    /\ (Deleting /\ i > call.pos)
       => /\ NumRecords(file) = n
          /\ Slot(file, i - 1) = Slot(file, i)

\* A delete has been caught between two writes: three slots still, the
\* last record twice, the deleted one gone.
C22_Witness ==
    /\ pc = "del_loop" /\ call.pos = 1 /\ n = 3 /\ i = 2
    /\ WellFormed(file) /\ NumRecords(file) = 3
    /\ Slot(file, 1) = Slot(file, 2)
    /\ Slot(file, 1) # Slot(pre, 1)
    /\ Slot(file, 2) # Slot(file, 3)

\* The 1-based byte positions at which two files differ, a byte that only
\* one of them has counting as a difference.
Changed(f, g) ==
    { k \in 1..Max(Len(f), Len(g)) : k > Len(f) \/ k > Len(g) \/ f[k] # g[k] }

\* The first b bytes of f, as far as it has them.
Prefix(f, b) == SubSeq(f, 1, Min(b, Len(f)))

(***************************************************************************)
(* C23  InsertAt(p, r) and DeleteAt(p) never write a byte at an offset     *)
(* below (p-1)*43: in every intermediate and final state of the operation  *)
(* the records at positions 1..p-1 are byte-identical to what they were    *)
(* when it was invoked; and every step that changes the file changes bytes *)
(* of one record slot only, or cuts the file's tail, at or above that      *)
(* offset: every write starts at a multiple of 43.                         *)
(***************************************************************************)
C23_Frame ==
    [][ call'.op \in {"insert", "delete"}
        => LET lo == (call'.pos - 1) * RECORD_SIZE
               d  == Changed(file, file')
           IN  /\ Prefix(file', lo) = Prefix(pre', lo)
               /\ file' # file
                  => /\ \A k \in d : k > lo
                     /\ Len(file') >= Len(file)
                        => \E s \in 0..MaxRecs :
                               d \subseteq (s * RECORD_SIZE + 1)..((s + 1) * RECORD_SIZE)
                     /\ Len(file') < Len(file)
                        => d = (Len(file') + 1)..Len(file) ]_vars

\* An insert at position 3 of three records has completed: the file has
\* changed and its first two records have not.
C23_Witness ==
    /\ Completed("insert") /\ call.pos = 3 /\ msgs = <<"Inserted">>
    /\ Len(pre) = 3 * RECORD_SIZE
    /\ Slot(file, 3) # Slot(pre, 3)
    /\ Prefix(file, 2 * RECORD_SIZE) = Prefix(pre, 2 * RECORD_SIZE)

\* The second of two operations has completed, on the file the noted one
\* left, at the position of the noted one.
Undone(first, second) ==
    /\ Completed(second)
    /\ noted.call.op = first
    /\ call.pos = noted.call.pos
    /\ pre = noted.file
    /\ WellFormed(noted.pre)

\* The noted delete removed the record x.
Removed(x) == x = RecordAt(noted.pre, noted.call.pos)

\* The claim as stated: a delete, then an insert of the record that was at
\* the position, restores the file, whatever the record.
C24_AsClaimed ==
    (Undone("delete", "insert") /\ Removed(call.rec)) => file = noted.pre

(***************************************************************************)
(* C24  On a well-formed n-record store, InsertAt(p, r) for 1 <= p <= n+1  *)
(* followed immediately by DeleteAt(p) restores the file to exactly the    *)
(* bytes it had before the insert.  DeleteAt(p) for 1 <= p <= n followed   *)
(* by InsertAt(p, x) restores the file to exactly its bytes when the bytes *)
(* that were at p are the encoding of x; when x is the record that was     *)
(* shown at p, the file has its length again, every other position has its *)
(* bytes again, and position p shows x again.                              *)
(***************************************************************************)
C24_Undo ==
    /\ Undone("insert", "delete") => file = noted.pre
    /\ Undone("delete", "insert")
       => /\ Len(file) = Len(noted.pre)
          /\ \A q \in 1..NumRecords(file) :
                 q # call.pos => Slot(file, q) = Slot(noted.pre, q)
          /\ Encode(call.rec) = Slot(noted.pre, call.pos) <=> file = noted.pre
          /\ Removed(call.rec) => RecordAt(file, call.pos) = call.rec

\* The record shown at position 2 of three was deleted and inserted again,
\* and the file, changed in between, has its bytes again.
C24_Witness ==
    /\ Undone("delete", "insert") /\ Removed(call.rec)
    /\ call.pos = 2 /\ NumRecords(file) = 3
    /\ msgs = <<"Inserted">>
    /\ noted.file # noted.pre /\ file = noted.pre

====
